---------------------------- MODULE Spec2Model ----------------------------
(***************************************************************************)
(* A model of the MegaBeer brewing-science library (python).               *)
(*                                                                         *)
(* The library is a collection of numeric functions plus three small       *)
(* kinds of object (the mIBU model object, the unit descriptors, the Hop   *)
(* record).  A behaviour of the model is a caller invoking the library's   *)
(* operations one after another: `call' is the operation invoked last with *)
(* its arguments, `result' is its outcome (a value or the exception it     *)
(* raised), `obj' is the mIBU model object and `hop' the Hop record.       *)
(* `input' holds the argument values the caller has at hand.               *)
(*                                                                         *)
(* Python floats are IEEE-754 binary floating point numbers.  They are     *)
(* modelled as such, with round-to-nearest-even after every operation,     *)
(* but with a significand of Prec bits instead of 53 and no bound on the   *)
(* exponent: a float is [m |-> significand, e |-> exponent], of value      *)
(* m * 2^e, with 2^(Prec-1) <= |m| < 2^Prec, or m = e = 0.                 *)
(***************************************************************************)
EXTENDS Integers, Sequences, FiniteSets, TLC

VARIABLES input, call, result, obj, hop

vars == <<input, call, result, obj, hop>>

(***************************************************************************)
(* Bounds of the model.                                                    *)
(***************************************************************************)
\* Bits of a float's significand (binary64 has 53).
Prec == 11

(***************************************************************************)
(* Floating point arithmetic.                                              *)
(***************************************************************************)
Pow2(k) == 2^k

Abs(x) == IF x < 0 THEN -x ELSE x

Sign(x) == IF x < 0 THEN -1 ELSE 1

RECURSIVE BitLen(_)
BitLen(n) == IF n = 0 THEN 0 ELSE 1 + BitLen(n \div 2)

Zero == [m |-> 0, e |-> 0]

\* The float nearest to M * 2^e (M >= 0), ties to even; sticky says that the
\* exact value is a little above M * 2^e (bits were dropped below M's last).
RoundShift(M, e, sticky) ==
    LET n == BitLen(M)
    IN  IF M = 0 THEN Zero
        ELSE IF n <= Prec
        THEN [m |-> M * Pow2(Prec - n), e |-> e - (Prec - n)]
        ELSE LET k    == n - Prec
                 q    == M \div Pow2(k)
                 rem  == M % Pow2(k)
                 half == Pow2(k - 1)
                 up   == rem > half \/ (rem = half /\ (sticky \/ q % 2 = 1))
                 q2   == IF up THEN q + 1 ELSE q
             IN  IF q2 = Pow2(Prec)
                 THEN [m |-> Pow2(Prec - 1), e |-> e + k + 1]
                 ELSE [m |-> q2, e |-> e + k]

Signed(s, f) == [m |-> s * f.m, e |-> f.e]

FNeg(a) == [m |-> -a.m, e |-> a.e]

\* a * b
FMul(a, b) ==
    IF a.m = 0 \/ b.m = 0 THEN Zero
    ELSE Signed(Sign(a.m) * Sign(b.m),
                RoundShift(Abs(a.m) * Abs(b.m), a.e + b.e, FALSE))

\* a + b
FAdd(a, b) ==
    IF a.m = 0 THEN b
    ELSE IF b.m = 0 THEN a
    ELSE LET hi == IF a.e >= b.e THEN a ELSE b
             lo == IF a.e >= b.e THEN b ELSE a
             d  == hi.e - lo.e
             S  == hi.m * Pow2(d) + lo.m
         IN  IF d > Prec + 2 THEN hi
             ELSE IF S = 0 THEN Zero
             ELSE Signed(Sign(S), RoundShift(Abs(S), lo.e, FALSE))

\* a - b
FSub(a, b) == FAdd(a, FNeg(b))

\* Long division: q is the quotient so far, r the remainder, d the divisor.
RECURSIVE LongDiv(_, _, _, _)
LongDiv(q, r, d, e) ==
    IF q >= Pow2(Prec + 1) THEN RoundShift(q, e, r # 0)
    ELSE LET bit == IF 2 * r >= d THEN 1 ELSE 0
         IN  LongDiv(2 * q + bit, 2 * r - bit * d, d, e - 1)

\* a / b, b nonzero
FDiv(a, b) ==
    IF a.m = 0 THEN Zero
    ELSE Signed(Sign(a.m) * Sign(b.m),
                LongDiv(Abs(a.m) \div Abs(b.m), Abs(a.m) % Abs(b.m),
                        Abs(b.m), a.e - b.e))

\* The float a decimal literal n/d denotes (n >= 0, d > 0): 0.241 is Lit(241, 1000).
Lit(n, d) == IF n = 0 THEN Zero ELSE LongDiv(n \div d, n % d, d, 0)

\* a * 2^k, exact
Scale2(a, k) == IF a.m = 0 THEN Zero ELSE [m |-> a.m, e |-> a.e + k]

FLt(a, b) == FSub(a, b).m < 0

FLe(a, b) == FSub(a, b).m <= 0

FGe(a, b) == FLe(b, a)

FGt(a, b) == FLt(b, a)

RECURSIVE ISqrtIter(_, _)
ISqrtIter(M, x) ==
    LET y == (x + M \div x) \div 2
    IN  IF y >= x THEN x ELSE ISqrtIter(M, y)

\* floor(sqrt(M)), M > 0
ISqrt(M) == ISqrtIter(M, Pow2((BitLen(M) + 1) \div 2))

\* sqrt(a), a >= 0 (np.sqrt, correctly rounded)
FSqrt(a) ==
    IF a.m = 0 THEN Zero
    ELSE LET s == IF (a.e - (Prec + 2)) % 2 = 0 THEN Prec + 2 ELSE Prec + 3
             M == a.m * Pow2(s)
             r == ISqrt(M)
         IN  RoundShift(r, (a.e - s) \div 2, r * r # M)

(***************************************************************************)
(* exp, computed in fixed point with ExpBits fraction bits: x = k * ln 2   *)
(* + r with 0 <= r < ln 2, exp(r) by its Taylor series, exp(x) = 2^k *     *)
(* exp(r).  As with np.exp the result is within about a unit in the last   *)
(* place of the exact value, and exp(0) is exactly 1.                      *)
(***************************************************************************)
ExpBits == 16

ExpOne == Pow2(ExpBits)        \* 1.0 in fixed point

ExpLn2 == 11629080             \* ln 2 * 2^24, rounded

ExpLn2Up == 45427              \* ln 2 * 2^16, rounded up

\* x as a fixed point number, rounded towards minus infinity
ToFixed(x) ==
    IF x.e + ExpBits >= 0 THEN x.m * Pow2(x.e + ExpBits)
    ELSE IF x.e + ExpBits < -Prec THEN (IF x.m < 0 THEN -1 ELSE 0)
    ELSE IF x.m >= 0 THEN x.m \div Pow2(-(x.e + ExpBits))
    ELSE -((-x.m + Pow2(-(x.e + ExpBits)) - 1) \div Pow2(-(x.e + ExpBits)))

FloorDiv(a, b) == IF a >= 0 THEN a \div b ELSE -((-a + b - 1) \div b)

RECURSIVE ExpSeries(_, _, _, _)
ExpSeries(r, term, n, sum) ==
    IF term = 0 THEN sum
    ELSE ExpSeries(r, (term * r) \div (n * ExpOne), n + 1, sum + term)

FExp(x) ==
    IF x.m = 0 THEN [m |-> Pow2(Prec - 1), e |-> -(Prec - 1)]
    ELSE LET xi == ToFixed(x)
             k0 == FloorDiv(xi, ExpLn2Up)
             r0 == xi - FloorDiv(k0 * ExpLn2 + 128, 256)
             k  == IF r0 < 0 THEN k0 - 1 ELSE k0
             r  == IF r0 < 0 THEN xi - FloorDiv(k * ExpLn2 + 128, 256) ELSE r0
         IN  RoundShift(ExpSeries(r, r, 2, ExpOne), k - ExpBits, FALSE)

(***************************************************************************)
(* Python values and outcomes.                                             *)
(***************************************************************************)
\* a python float
Float(f) == [kind |-> "float", v |-> f]

\* a numpy.ndarray of floats, as the sequence of its elements
Array(s) == [kind |-> "ndarray", v |-> s]

\* a bool
Bool(b) == [kind |-> "bool", v |-> b]

\* the call ended in an exception of this type
Raise(exc) == [kind |-> "raise", exc |-> exc]

None == [kind |-> "None"]

NoCall == [op |-> "none"]

One == Lit(1, 1)

(***************************************************************************)
(* MegaBeer/science/heat.py                                                *)
(***************************************************************************)
\* NewtonCooling.T(t, T0, Ti, tau), python floats:
\*     return T0 + (T0 - Ti) * np.exp(-t / tau)
NewtonCooling_T(t, T0, Ti, tau) ==
    IF tau.m = 0 THEN Raise("ZeroDivisionError")
    ELSE Float(FAdd(T0, FMul(FSub(T0, Ti), FExp(FDiv(FNeg(t), tau)))))

HeatTimes == {Lit(0, 1), Lit(1, 1), Lit(60, 1), Lit(1325, 10), Lit(1000, 1)}

AmbientTemps == {Lit(0, 1), Lit(211, 10), Lit(100, 1)}

InitialTemps == {Lit(211, 10), Lit(80, 1), Lit(100, 1)}

Taus == {FNeg(Lit(60, 1)), Zero, Lit(60, 1), Lit(1325, 10)}

HeatInputs ==
    [t : HeatTimes, T0 : AmbientTemps, Ti : InitialTemps, tau : Taus]

InitHeat ==
    /\ input \in HeatInputs
    /\ call = NoCall
    /\ result = None
    /\ obj = None
    /\ hop = None

\* the caller evaluates NewtonCooling.T(t, T0, Ti, tau)
CallT ==
    /\ call' = [op |-> "NewtonCooling.T"]
    /\ result' = NewtonCooling_T(input.t, input.T0, input.Ti, input.tau)
    /\ UNCHANGED <<input, obj, hop>>

NextHeat == CallT

SpecHeat == InitHeat /\ [][NextHeat]_vars

(***************************************************************************)
(* C1.  NewtonCooling.T recovers the initial condition: for every T0, Ti   *)
(* and tau # 0, T(0, T0, Ti, tau) equals Ti exactly.                       *)
(* The code returns T0 + (T0 - Ti) = 2*T0 - Ti there: the sign of the      *)
(* temperature difference is reversed (and heat.py's first line, `from     *)
(* numpy import np', cannot be imported to begin with).                    *)
(***************************************************************************)
C1_InitialConditionRecovered ==
    (call.op = "NewtonCooling.T" /\ input.t = Zero /\ input.tau # Zero)
        => result = Float(input.Ti)

(***************************************************************************)
(* MegaBeer/calculation/hops/gravity_factor.py                             *)
(***************************************************************************)
\* Applies f to a float or, elementwise, to an ndarray (numpy broadcasting).
Elementwise(f(_), G) ==
    IF G.kind = "ndarray"
    THEN Array([i \in 1..Len(G.v) |-> f(G.v[i])])
    ELSE Float(f(G.v))

\* tinseth1050(G):  return 1.5673 * 0.000125 * (G - 1.)
tinseth1050(G) ==
    Elementwise(LAMBDA g : FMul(FMul(Lit(15673, 10000), Lit(125, 1000000)),
                                FSub(g, One)),
                G)

\* rager's first line for one element:  1. + 5. * (G - 1.05)
rager_denominator(g) == FAdd(One, FMul(Lit(5, 1), FSub(g, Lit(105, 100))))

rager_mutant(G) ==
    IF G.kind = "ndarray"
    THEN Array([i \in 1..Len(G.v) |->
                   IF FGe(G.v[i], Lit(105, 100))
                   THEN One
                   ELSE FDiv(One, rager_denominator(G.v[i]))])
    ELSE IF FLt(G.v, Lit(105, 100)) THEN Float(One)
    ELSE Float(FDiv(One, rager_denominator(G.v)))

\* rager(G):
\*     u = 1. / (1. + 5. * (G - 1.05))
\*     if type(u) == np.ndarray: return np.where(G >= 1.05, u, 1.)
\*     else: if G < 1.05: return 1.   else: return u
\* A python float divided by 0.0 raises; the standard gravities of the model
\* are all near 1, where the denominator is near 1 too.
rager(G) ==
    IF G.kind = "ndarray"
    THEN Array([i \in 1..Len(G.v) |->
                   IF FGe(G.v[i], Lit(105, 100))
                   THEN FDiv(One, rager_denominator(G.v[i]))
                   ELSE One])
    ELSE IF rager_denominator(G.v) = Zero THEN Raise("ZeroDivisionError")
    ELSE IF FLt(G.v, Lit(105, 100)) THEN Float(One)
    ELSE Float(FDiv(One, rager_denominator(G.v)))

\* Standard gravities 1.000, 1.010, ... 1.000 + MaxGravityStep / 100
MaxGravityStep == 10

Gravities == {Lit(1000 + 10 * k, 1000) : k \in 0..MaxGravityStep}

GravityInputs ==
    {Float(g) : g \in Gravities}
        \cup {Array(<<g>>) : g \in Gravities}
        \cup {Array(<<g, h>>) : g \in Gravities, h \in Gravities}

InitGravity ==
    /\ input \in [G : GravityInputs]
    /\ call = NoCall
    /\ result = None
    /\ obj = None
    /\ hop = None

CallRager ==
    /\ call' = [op |-> "rager"]
    /\ result' = rager(input.G)
    /\ UNCHANGED <<input, obj, hop>>

CallTinseth1050 ==
    /\ call' = [op |-> "tinseth1050"]
    /\ result' = tinseth1050(input.G)
    /\ UNCHANGED <<input, obj, hop>>

NextGravity == CallRager \/ CallTinseth1050

SpecGravity == InitGravity /\ [][NextGravity]_vars

(***************************************************************************)
(* C6.  For every standard gravity G the scalar path of rager and its      *)
(* array path (on an array holding G) return the same value: exactly 1     *)
(* when G < 1.05 and 1 / (1 + 5 * (G - 1.05)) when G >= 1.05; at G = 1.05   *)
(* both return 1 (the scalar path as u = 1/1, the array path by selecting  *)
(* u = 1/1).                                                               *)
(***************************************************************************)
C6_Expected(g) ==
    IF FLt(g, Lit(105, 100)) THEN One
    ELSE FDiv(One, FAdd(One, FMul(Lit(5, 1), FSub(g, Lit(105, 100)))))

C6_RagerPathsAgree ==
    call.op = "rager" =>
        IF input.G.kind = "ndarray"
        THEN /\ result.kind = "ndarray"
             /\ Len(result.v) = Len(input.G.v)
             /\ \A i \in 1..Len(input.G.v) :
                   /\ result.v[i] = C6_Expected(input.G.v[i])
                   /\ Float(result.v[i]) = rager(Float(input.G.v[i]))
        ELSE /\ result = Float(C6_Expected(input.G.v))
             /\ Array(<<result.v>>) = rager(Array(<<input.G.v>>))

C6_Witness ==
    /\ call.op = "rager"
    /\ input.G = Array(<<Lit(105, 100), Lit(1000, 1000)>>)
    /\ result = Array(<<One, One>>)

(***************************************************************************)
(* C8.  tinseth1050 is normalized to 1 at G = 1.050: tinseth1050(1.050) =  *)
(* 1.  This is the function's docstring; its formula, 1.5673 * 0.000125 *  *)
(* (G - 1.), gives about 9.8e-6 there.                                     *)
(***************************************************************************)
C8_NormalizedAt1050 ==
    (call.op = "tinseth1050" /\ input.G = Float(Lit(1050, 1000)))
        => result = Float(One)

(***************************************************************************)
(* MegaBeer/units.py                                                       *)
(***************************************************************************)
\* nochange(x):  return x
nochange(x) == x

\* 10.**order for a whole order: a power of ten or its reciprocal, rounded
Pow10(order) ==
    IF order >= 0 THEN Lit(10^order, 1) ELSE Lit(1, 10^(-order))

\* orderchange(x, order):  return 10.**order * x
orderchange(x, order) == FMul(Pow10(order), x)

\* The conversion functions a descriptor holds are nochange or
\* lambda x: orderchange(x, order).
Apply(f, x) ==
    IF f.fn = "nochange" THEN nochange(x) ELSE orderchange(x, f.order)

NoChange == [fn |-> "nochange"]

OrderChange(order) == [fn |-> "orderchange", order |-> order]

\* Units.__init__
Units_init(mass, length, volume, temperature, mass_back, length_back, volume_back, temperature_back) ==
    [mass |-> mass, length |-> length, volume |-> volume,
     temperature |-> temperature, mass_back |-> mass_back,
     length_back |-> length_back, volume_back |-> volume_back,
     temperature_back |-> temperature_back]

\* Metric.__init__
Metric ==
    Units_init(NoChange, NoChange, NoChange, NoChange,
               NoChange, NoChange, NoChange, NoChange)

MetricGrams_mutant ==
    Units_init(OrderChange(3), NoChange, NoChange, NoChange,
               OrderChange(-2), NoChange, NoChange, NoChange)

\* MetricGrams.__init__
MetricGrams ==
    Units_init(OrderChange(3), NoChange, NoChange, NoChange,
               OrderChange(-3), NoChange, NoChange, NoChange)

convert_mass(self, m) == Apply(self.mass, m)

convert_mass_back(self, m) == Apply(self.mass_back, m)

convert_volume(self, v) == Apply(self.volume, v)

convert_volume_back(self, v) == Apply(self.volume_back, v)

convert_temperature(self, T) == Apply(self.temperature, T)

convert_temperature_back(self, T) == Apply(self.temperature_back, T)

\* Quantities 0.1, 0.2, ... MaxTenths / 10
MaxTenths == 60

Quantities == {Lit(k, 10) : k \in 1..MaxTenths}

Descriptor(name) == IF name = "Metric" THEN Metric ELSE MetricGrams

InitUnits ==
    /\ input \in [units : {"Metric", "MetricGrams"}, x : Quantities]
    /\ call = NoCall
    /\ result = None
    /\ obj = None
    /\ hop = None

\* units.convert_<quantity>(x)
Convert(op, f(_, _)) ==
    /\ call' = [op |-> op]
    /\ result' = Float(f(Descriptor(input.units), input.x))
    /\ UNCHANGED <<input, obj, hop>>

\* units.convert_<quantity>_back(y), y the value convert_<quantity> returned
ConvertBack(forward, op, f(_, _)) ==
    /\ call.op = forward
    /\ call' = [op |-> op]
    /\ result' = Float(f(Descriptor(input.units), result.v))
    /\ UNCHANGED <<input, obj, hop>>

ConvertMass == Convert("convert_mass", convert_mass)

ConvertMassBack ==
    ConvertBack("convert_mass", "convert_mass_back", convert_mass_back)

ConvertVolume == Convert("convert_volume", convert_volume)

ConvertVolumeBack ==
    ConvertBack("convert_volume", "convert_volume_back", convert_volume_back)

ConvertTemperature == Convert("convert_temperature", convert_temperature)

ConvertTemperatureBack ==
    ConvertBack("convert_temperature", "convert_temperature_back",
                convert_temperature_back)

NextUnits ==
    \/ ConvertMass
    \/ ConvertMassBack
    \/ ConvertVolume
    \/ ConvertVolumeBack
    \/ ConvertTemperature
    \/ ConvertTemperatureBack

SpecUnits == InitUnits /\ [][NextUnits]_vars

BackOps ==
    {"convert_mass_back", "convert_volume_back", "convert_temperature_back"}

(***************************************************************************)
(* C7.  For Metric and MetricGrams each backward conversion is the inverse *)
(* of its forward conversion: convert_X_back(convert_X(x)) = x for every   *)
(* x > 0.                                                                  *)
(* As stated (exact equality) this fails for MetricGrams' mass: 10.**-3.   *)
(* is not exactly 1/1000 in binary floating point, and 0.001 * (1000.0 *   *)
(* x) is x only up to rounding (in binary64, x = 0.7 comes back as         *)
(* 0.7000000000000001).                                                    *)
(***************************************************************************)
C7_RoundTripExact ==
    call.op \in BackOps => result = Float(input.x)

\* |a - b| <= x * 2^(2 - Prec)
Close(a, b, x) ==
    LET d == FSub(a, b)
    IN  FLe(Scale2([m |-> Abs(d.m), e |-> d.e], Prec - 2), x)

(***************************************************************************)
(* C7, amended.  The identity conversions (all of Metric's, MetricGrams'   *)
(* volume and temperature) return x exactly; MetricGrams' mass round trip  *)
(* returns x up to rounding: with a relative error of at most 4 units      *)
(* roundoff, 2^(2 - p) for floats of p significand bits.                   *)
(***************************************************************************)
C7_RoundTripWithinRounding ==
    /\ call.op \in BackOps =>
          /\ result.kind = "float"
          /\ Close(result.v, input.x, input.x)
          /\ (input.units = "Metric" \/ call.op # "convert_mass_back")
                => result.v = input.x
    /\ call.op \in {"convert_mass", "convert_volume", "convert_temperature"} =>
          result.v = IF input.units = "MetricGrams" /\ call.op = "convert_mass"
                     THEN FMul(Lit(1000, 1), input.x)
                     ELSE input.x

C7_Witness ==
    /\ call.op = "convert_mass_back"
    /\ input.units = "MetricGrams"
    /\ result.kind = "float"
    /\ result.v # input.x

(***************************************************************************)
(* MegaBeer/datatypes.py                                                   *)
(***************************************************************************)
Str(s) == [kind |-> "str", v |-> s]

\* DBObject.__init__(self, ingred_type):  self.ingred_type = ingred_type
DBObject_init(self, ingred_type) == self @@ ("ingred_type" :> ingred_type)

Hop_init_mutant(AA, name) ==
    DBObject_init([kind |-> "Hop", AA |-> AA, name |-> name], name)

\* Hop.__init__(self, AA, name=None):
\*     self.AA = AA;  self.name = name;  super().__init__('hop')
Hop_init(AA, name) ==
    DBObject_init([kind |-> "Hop", AA |-> AA, name |-> name], Str("hop"))

\* Alpha-acid fractions 0.00, 0.01, ... MaxAlphaPercent / 100
MaxAlphaPercent == 24

AlphaAcids == {Lit(k, 100) : k \in 0..MaxAlphaPercent}

HopNames == {Str("Cascade"), Str("Saaz"), Str("Citra"), Str("")}

InitHop ==
    /\ input \in [AA : AlphaAcids, name : HopNames]
    /\ call = NoCall
    /\ result = None
    /\ obj = None
    /\ hop = None

\* Hop(AA)
NewHop ==
    /\ call' = [op |-> "Hop", args |-> 1]
    /\ hop' = Hop_init(input.AA, None)
    /\ result' = None
    /\ UNCHANGED <<input, obj>>

\* Hop(AA, name)
NewNamedHop ==
    /\ call' = [op |-> "Hop", args |-> 2]
    /\ hop' = Hop_init(input.AA, input.name)
    /\ result' = None
    /\ UNCHANGED <<input, obj>>

NextHop == NewHop \/ NewNamedHop

SpecHop == InitHop /\ [][NextHop]_vars

(***************************************************************************)
(* C9.  Every Hop record carries the ingredient-type tag "hop": right      *)
(* after construction with any alpha-acid fraction and any name (or none)  *)
(* the tag is "hop", and it stays "hop" in every state that follows: the   *)
(* library has no operation on the record other than constructing it.      *)
(***************************************************************************)
C9_HopTag ==
    /\ hop.kind = "Hop" => hop.ingred_type = Str("hop")
    /\ call.op = "Hop" => hop.kind = "Hop"

C9_Witness ==
    /\ call.op = "Hop"
    /\ hop.kind = "Hop"
    /\ hop.name = Str("Saaz")
    /\ hop.ingred_type = Str("hop")

(***************************************************************************)
(* numpy and scipy, as the two iso_time modules use them                   *)
(***************************************************************************)
\* a * b for floats and ndarrays (a scalar is broadcast over an array)
Times(a, b) ==
    IF a.kind = "ndarray" /\ b.kind = "ndarray"
    THEN Array([i \in 1..Len(a.v) |-> FMul(a.v[i], b.v[i])])
    ELSE IF a.kind = "ndarray"
    THEN Array([i \in 1..Len(a.v) |-> FMul(a.v[i], b.v)])
    ELSE IF b.kind = "ndarray"
    THEN Array([i \in 1..Len(b.v) |-> FMul(a.v, b.v[i])])
    ELSE Float(FMul(a.v, b.v))

\* a + b for floats and ndarrays
Plus(a, b) ==
    IF a.kind = "ndarray" /\ b.kind = "ndarray"
    THEN Array([i \in 1..Len(a.v) |-> FAdd(a.v[i], b.v[i])])
    ELSE IF a.kind = "ndarray"
    THEN Array([i \in 1..Len(a.v) |-> FAdd(a.v[i], b.v)])
    ELSE IF b.kind = "ndarray"
    THEN Array([i \in 1..Len(b.v) |-> FAdd(a.v, b.v[i])])
    ELSE Float(FAdd(a.v, b.v))

\* Panels of the quadrature rule that stands for QUADPACK's
QuadPanels == 4

RECURSIVE MidpointSum(_, _, _, _, _)
\* f(a + h/2) + f(a + 3h/2) + ... over panels i..n
MidpointSum(f(_), a, h, i, n) ==
    IF i > n THEN Zero
    ELSE FAdd(f(FAdd(a, FMul(Lit(2 * i - 1, 2), h))).v,
              MidpointSum(f, a, h, i + 1, n))

\* The n-panel midpoint rule for the integral of f over [a, b]
Midpoint(f(_), a, b, n) ==
    LET h == FDiv(FSub(b, a), Lit(n, 1))
    IN  FMul(h, MidpointSum(f, a, h, 1, n))

\* scipy.integrate.quad(f, a, b) for float limits: the pair (integral, estimate
\* of the absolute error).  The integrand is evaluated inside (a, b); it must
\* return one number: an exception it raises ends the call, and so does an
\* ndarray of several elements ("only size-1 arrays can be converted to Python
\* scalars").  The integral is the midpoint rule's over QuadPanels panels, the
\* error estimate its distance from the one-panel rule's.
Quad(f(_), a, b) ==
    LET first == f(FAdd(a, FMul(Lit(1, 2), FDiv(FSub(b, a), Lit(QuadPanels, 1)))))
        fine   == Midpoint(f, a, b, QuadPanels)
        coarse == Midpoint(f, a, b, 1)
        err    == FSub(fine, coarse)
    IN  IF first.kind = "raise" THEN first
        ELSE IF first.kind = "ndarray" THEN Raise("TypeError")
        ELSE [kind |-> "tuple",
              v |-> <<fine, [m |-> Abs(err.m), e |-> err.e]>>]

\* numpy.where(mask, x, y), mask of a scalar t (0-d) or of an array t;
\* x and y are floats or quad's pairs
Where(mask, x, y) ==
    LET elem(z, i) == IF z.kind = "float" THEN z.v ELSE z.v[i]
        len(z) == IF z.kind = "float" THEN 1 ELSE Len(z.v)
        n == IF len(x) > len(y) THEN len(x) ELSE len(y)
    IN  IF mask.kind = "bool"
        THEN IF n = 1 /\ x.kind = "float" /\ y.kind = "float"
             THEN (IF mask.v THEN x ELSE y)
             ELSE Array([i \in 1..n |-> IF mask.v THEN elem(x, i) ELSE elem(y, i)])
        ELSE IF n # 1 /\ n # Len(mask.v) THEN Raise("ValueError")
        ELSE Array([i \in 1..Len(mask.v) |->
                       IF mask.v[i] THEN elem(x, i) ELSE elem(y, i)])

\* t_arr >= t_cool
GreaterEqual(t, c) ==
    IF t.kind = "ndarray"
    THEN [kind |-> "boolarray", v |-> [i \in 1..Len(t.v) |-> FGe(t.v[i], c)]]
    ELSE Bool(FGe(t.v, c))

(***************************************************************************)
(* MegaBeer/model/hops/iso_time.py: the free-function form                 *)
(***************************************************************************)
\* TinsethTime.tinseth(t, max_u, r):  return max_u * (1. - np.exp(-r * t))
model_tinseth(t, max_u, r) ==
    Elementwise(LAMBDA x : FMul(max_u, FSub(One, FExp(FMul(FNeg(r), x)))), t)

\* TinsethTime.tinseth_rate(t, max_u, r):  return max_u * r * np.exp(-r * t)
model_tinseth_rate(t, max_u, r) ==
    Elementwise(LAMBDA x : FMul(FMul(max_u, r), FExp(FMul(FNeg(r), x))), t)

\* mIBU.b(surface_area, open_area, volume):
\*     eff_area = np.sqrt(surface_area * open_area)
\*     return 2.925e-4 * eff_area / volume + 5.38e-3
model_mIBU_b(surface_area, open_area, volume) ==
    LET eff_area == FSqrt(FMul(surface_area, open_area))
    IN  FAdd(FDiv(FMul(Lit(2925, 10000000), eff_area), volume),
             Lit(538, 100000))

\* The constants of mIBU_rate_correction: c1 = 2.39e11, c2 = 9773., c3 = 53.7,
\* c4 = 319.95
RateC1 == Scale2(Lit(466796875, 1), 9)

RateC2 == Lit(9773, 1)

RateC3 == Lit(537, 10)

RateC4 == Lit(31995, 100)

\* c1 * np.exp(-c2 / (c3 * np.exp(-b * (t)) + c4)) for one element t
RateCorrection(t, b) ==
    FMul(RateC1,
         FExp(FDiv(FNeg(RateC2),
                   FAdd(FMul(RateC3, FExp(FMul(FNeg(b), t))), RateC4))))

\* mIBU.mIBU_rate_correction(t, b), a static method
model_mIBU_rate_correction(t, b) ==
    Elementwise(LAMBDA x : RateCorrection(x, b), t)

\* mIBU.mIBU with the boil term selected by t >= t_boil
model_mIBU_mIBU_mutant(t, t_boil, t_cool, surface_area, open_area, volume, max_u, r) ==
    LET t_arr  == t
        t_mask == GreaterEqual(t_arr, t_boil)
        b      == model_mIBU_b(surface_area, open_area, volume)
        boil_util ==
            Where(t_mask, model_tinseth(t_arr, max_u, r), Float(Zero))
        cool_rate(x) ==
            Times(model_tinseth_rate(Float(x), max_u, r),
                  model_mIBU_rate_correction(t, b))
        quad1 == Quad(cool_rate, Zero, t_cool)
        quad2 == Quad(cool_rate, FSub(t_cool, t.v), t_cool)
        cool_util == Where(t_mask, quad1, quad2)
    IN  IF quad1.kind = "raise" THEN quad1
        ELSE IF quad2.kind = "raise" THEN quad2
        ELSE IF cool_util.kind = "raise" THEN cool_util
        ELSE Plus(boil_util, cool_util)

\* mIBU.mIBU(t, t_boil, t_cool, surface_area, open_area, volume, max_u, r),
\* t a float or an ndarray, the rest floats
model_mIBU_mIBU(t, t_boil, t_cool, surface_area, open_area, volume, max_u, r) ==
    LET t_arr  == t
        t_mask == GreaterEqual(t_arr, t_cool)
        b      == model_mIBU_b(surface_area, open_area, volume)
        boil_util ==
            Where(t_mask, model_tinseth(t_arr, max_u, r), Float(Zero))
        cool_rate(x) ==
            Times(model_tinseth_rate(Float(x), max_u, r),
                  model_mIBU_rate_correction(t, b))
        quad1 == Quad(cool_rate, Zero, t_cool)
        quad2 == Quad(cool_rate, FSub(t_cool, t.v), t_cool)
        cool_util == Where(t_mask, quad1, quad2)
    IN  IF quad1.kind = "raise" THEN quad1
        ELSE IF quad2.kind = "raise" THEN quad2
        ELSE IF cool_util.kind = "raise" THEN cool_util
        ELSE Plus(boil_util, cool_util)

(***************************************************************************)
(* MegaBeer/calculation/hops/iso_time.py: the object-oriented form         *)
(***************************************************************************)
\* TinsethTime.tinseth(max_u, r)(t):  max_u * (1. - np.exp(-r * t))
calc_tinseth(max_u, r, t) ==
    Elementwise(LAMBDA x : FMul(max_u, FSub(One, FExp(FMul(FNeg(r), x)))), t)

\* TinsethTime.tinseth_rate(max_u, r)(t):  max_u * r * np.exp(-r * t)
calc_tinseth_rate(max_u, r, t) ==
    Elementwise(LAMBDA x : FMul(FMul(max_u, r), FExp(FMul(FNeg(r), x))), t)

calc_calculate_b_mutant(surface_area, open_area, volume) ==
    LET eff_area == FSqrt(FMul(surface_area, open_area))
    IN  FAdd(FMul(FMul(Lit(2925, 10000000), eff_area), volume),
             Lit(538, 100000))

\* mIBU.calculate_b(surface_area, open_area, volume), a static method:
\*     eff_area = np.sqrt(surface_area * open_area)
\*     return 2.925e-4 * eff_area / volume + 5.38e-3
calc_calculate_b(surface_area, open_area, volume) ==
    LET eff_area == FSqrt(FMul(surface_area, open_area))
    IN  FAdd(FDiv(FMul(Lit(2925, 10000000), eff_area), volume),
             Lit(538, 100000))

\* mIBU.__init__(self, surface_area, open_area, volume, max_u, r)
calc_mIBU_init(surface_area, open_area, volume, max_u, r) ==
    [kind |-> "mIBU",
     surface_area |-> surface_area,
     open_area |-> open_area,
     volume |-> volume,
     b |-> calc_calculate_b(surface_area, open_area, volume),
     max_u |-> max_u,
     r |-> r]

\* mIBU.change_b(self, b): the object afterwards and the outcome
\*     if type(b) is float: self.b = b; return True
\*     else: raise ValueError(float)
calc_change_b(self, b) ==
    IF b.kind = "float"
    THEN [self |-> [self EXCEPT !.b = b.v], outcome |-> Bool(TRUE)]
    ELSE [self |-> self, outcome |-> Raise("ValueError")]

\* mIBU.mIBU_rate_correction(self, t), an instance method: it reads self.b
\*     return c1 * np.exp(-c2 / (c3 * np.exp(-self.b * (t)) + c4))
\* A float or an ndarray in the place of self has no attribute b.
calc_mIBU_rate_correction(self, t) ==
    IF self.kind # "mIBU" THEN Raise("AttributeError")
    ELSE Elementwise(LAMBDA x : RateCorrection(x, self.b), t)

\* mIBU.mIBU(self, t, t_boil, t_cool).  cool_rate calls the instance method
\* through the class, as mIBU.mIBU_rate_correction(t, self.b): t is bound to
\* its self and self.b to its t.
calc_mIBU_mIBU(self, t, t_boil, t_cool) ==
    LET t_arr  == t
        t_mask == GreaterEqual(t_arr, t_cool)
        boil_util ==
            Where(t_mask, calc_tinseth(self.max_u, self.r, t_arr), Float(Zero))
        cool_rate(x) ==
            LET rate == calc_tinseth_rate(self.max_u, self.r, Float(x))
                corr == calc_mIBU_rate_correction(t, Float(self.b))
            IN  IF corr.kind = "raise" THEN corr ELSE Times(rate, corr)
        quad1 == Quad(cool_rate, Zero, t_cool)
        quad2 == Quad(cool_rate, FSub(t_cool, t.v), t_cool)
        cool_util == Where(t_mask, quad1, quad2)
    IN  IF quad1.kind = "raise" THEN quad1
        ELSE IF quad2.kind = "raise" THEN quad2
        ELSE IF cool_util.kind = "raise" THEN cool_util
        ELSE Plus(boil_util, cool_util)

\* Minutes in the wort: floats, and ndarrays of two or more times
FloatTimes == {Lit(0, 1), Lit(10, 1), Lit(20, 1), Lit(60, 1)}

ArrayTimes == {<<Lit(10, 1), Lit(60, 1)>>, <<Lit(60, 1), Lit(90, 1)>>,
               <<Lit(10, 1), Lit(20, 1), Lit(60, 1)>>}

IsoTimes == {Float(t) : t \in FloatTimes} \cup {Array(t) : t \in ArrayTimes}

BoilTimes == {Lit(60, 1), Lit(90, 1)}

CoolTimes == {Lit(20, 1), Lit(30, 1)}

Areas == {Lit(0, 1), Lit(150, 1), Lit(300, 1)}

Volumes == {Lit(10, 1), Lit(20, 1), Lit(40, 1)}

MaxUs == {Lit(241, 1000), Lit(3, 10)}

Rates == {Lit(4, 100)}

FreeInputs ==
    [t : IsoTimes, t_boil : BoilTimes, t_cool : CoolTimes,
     surface_area : Areas, open_area : Areas, volume : Volumes,
     max_u : MaxUs, r : Rates]

InitFree ==
    /\ input \in FreeInputs
    /\ call = NoCall
    /\ result = None
    /\ obj = None
    /\ hop = None

\* mIBU.mIBU(t, t_boil, t_cool, surface_area, open_area, volume, max_u, r)
CallFreeMIBU ==
    /\ call' = [op |-> "mIBU.mIBU"]
    /\ result' = model_mIBU_mIBU(input.t, input.t_boil, input.t_cool,
                                 input.surface_area, input.open_area,
                                 input.volume, input.max_u, input.r)
    /\ UNCHANGED <<input, obj, hop>>

\* mIBU.b(surface_area, open_area, volume)
CallFreeB ==
    /\ call' = [op |-> "mIBU.b"]
    /\ result' = Float(model_mIBU_b(input.surface_area, input.open_area,
                                    input.volume))
    /\ UNCHANGED <<input, obj, hop>>

\* mIBU.calculate_b(surface_area, open_area, volume) of the other module
CallCalculateB ==
    /\ call' = [op |-> "mIBU.calculate_b"]
    /\ result' = Float(calc_calculate_b(input.surface_area, input.open_area,
                                        input.volume))
    /\ UNCHANGED <<input, obj, hop>>

NextFree == CallFreeMIBU \/ CallFreeB \/ CallCalculateB

SpecFree == InitFree /\ [][NextFree]_vars

Positive(f) == f.m > 0

(***************************************************************************)
(* C4.  For a hop addition that gets the full cooling tail (a float t >=   *)
(* t_cool > 0, positive max_u and r, positive geometry) mIBU returns a     *)
(* single utilization value, strictly greater than tinseth(t, max_u, r).   *)
(* The code returns an ndarray of two numbers: quad returns the pair       *)
(* (integral, error estimate), np.where selects between the two pairs, and *)
(* the boil term is added to both elements.                                *)
(***************************************************************************)
C4_SingleValueAboveTinseth ==
    (/\ call.op = "mIBU.mIBU"
     /\ input.t.kind = "float"
     /\ FGe(input.t.v, input.t_cool)
     /\ Positive(input.t_cool)
     /\ Positive(input.surface_area)
     /\ Positive(input.open_area)
     /\ Positive(input.volume))
        => /\ result.kind = "float"
           /\ FGt(result.v, model_tinseth(input.t, input.max_u, input.r).v)

(***************************************************************************)
(* C5.  The geometry timescale b(surface_area, open_area, volume) is       *)
(* strictly monotone in each argument over its whole domain (areas >= 0,   *)
(* volume > 0): strictly increasing in surface_area, strictly increasing   *)
(* in open_area, strictly decreasing in volume.                            *)
(* As stated this fails where the other area is 0: b is then 5.38e-3       *)
(* whatever the remaining arguments are.                                   *)
(***************************************************************************)
GeometryOps == {"mIBU.b", "mIBU.calculate_b"}

\* b as the operation called last computes it
SameB(surface_area, open_area, volume) ==
    IF call.op = "mIBU.b"
    THEN model_mIBU_b(surface_area, open_area, volume)
    ELSE calc_calculate_b(surface_area, open_area, volume)

C5_StrictlyMonotone ==
    call.op \in GeometryOps =>
        /\ \A a \in Areas : FLt(input.surface_area, a) =>
              FLt(result.v, SameB(a, input.open_area, input.volume))
        /\ \A a \in Areas : FLt(input.open_area, a) =>
              FLt(result.v, SameB(input.surface_area, a, input.volume))
        /\ \A v \in Volumes : FLt(input.volume, v) =>
              FGt(result.v, SameB(input.surface_area, input.open_area, v))

(***************************************************************************)
(* C5, amended.  b never moves the wrong way: it does not decrease when    *)
(* surface_area or open_area increases and does not increase when volume   *)
(* increases.  It strictly increases with one area only when the other     *)
(* area is positive, and strictly decreases with volume only when both     *)
(* areas are positive; when surface_area * open_area = 0, b is the         *)
(* constant 5.38e-3.  (Strictly: for arguments that differ by more than    *)
(* rounding, as those of the model do.)                                    *)
(***************************************************************************)
C5_MonotoneWherePositive ==
    call.op \in GeometryOps =>
        /\ \A a \in Areas : FLt(input.surface_area, a) =>
              LET other == SameB(a, input.open_area, input.volume)
              IN  IF Positive(input.open_area)
                  THEN FLt(result.v, other)
                  ELSE result.v = other /\ other = Lit(538, 100000)
        /\ \A a \in Areas : FLt(input.open_area, a) =>
              LET other == SameB(input.surface_area, a, input.volume)
              IN  IF Positive(input.surface_area)
                  THEN FLt(result.v, other)
                  ELSE result.v = other /\ other = Lit(538, 100000)
        /\ \A v \in Volumes : FLt(input.volume, v) =>
              LET other == SameB(input.surface_area, input.open_area, v)
              IN  IF Positive(input.surface_area) /\ Positive(input.open_area)
                  THEN FGt(result.v, other)
                  ELSE result.v = other /\ other = Lit(538, 100000)

C5_Witness ==
    /\ call.op = "mIBU.calculate_b"
    /\ input.surface_area = Lit(150, 1)
    /\ input.open_area = Zero
    /\ input.volume = Lit(10, 1)
    /\ result = Float(Lit(538, 100000))

(***************************************************************************)
(* C10.  In mIBU, when t is an array, the two terms are selected per       *)
(* element: for t_i >= t_cool the boil term is tinseth(t_i) and the        *)
(* cooling term the integral over [0, t_cool]; for t_i < t_cool the boil   *)
(* term is 0 and the cooling term the integral over [t_cool - t_i,         *)
(* t_cool].                                                                *)
(* The code computes both integrals before it selects, with an integrand   *)
(* that returns an array when t is one: quad raises.                       *)
(***************************************************************************)
C10_Element(t, t_cool, b, max_u, r) ==
    LET integrand(x) ==
            Times(model_tinseth_rate(Float(x), max_u, r),
                  model_mIBU_rate_correction(Float(t), b))
    IN  IF FGe(t, t_cool)
        THEN FAdd(model_tinseth(Float(t), max_u, r).v,
                  Quad(integrand, Zero, t_cool).v[1])
        ELSE Quad(integrand, FSub(t_cool, t), t_cool).v[1]

C10_SelectedPerElement ==
    (call.op = "mIBU.mIBU" /\ input.t.kind = "ndarray") =>
        /\ result.kind = "ndarray"
        /\ Len(result.v) = Len(input.t.v)
        /\ \A i \in 1..Len(input.t.v) :
              result.v[i] =
                  C10_Element(input.t.v[i], input.t_cool,
                              model_mIBU_b(input.surface_area, input.open_area,
                                           input.volume),
                              input.max_u, input.r)

(***************************************************************************)
(* The mIBU model object                                                   *)
(***************************************************************************)
PyInt(f) == [kind |-> "int", v |-> f]

NumpyFloat(f) == [kind |-> "numpy.float64", v |-> f]

\* Values a caller may hand to change_b
Replacements ==
    {Float(Lit(1, 100)), Float(One), PyInt(One), PyInt(Zero),
     NumpyFloat(Lit(1, 100)), Str("0.01"), None}

ObjInputs ==
    [t : IsoTimes, t_boil : {Lit(60, 1)}, t_cool : CoolTimes,
     surface_area : {Lit(150, 1), Lit(300, 1)},
     open_area : {Lit(150, 1), Lit(300, 1)},
     volume : {Lit(20, 1), Lit(40, 1)},
     max_u : {Lit(241, 1000)}, r : Rates]

InitObj ==
    /\ input \in ObjInputs
    /\ call = NoCall
    /\ result = None
    /\ obj = None
    /\ hop = None

\* obj = mIBU(surface_area, open_area, volume, max_u, r)
NewMIBU ==
    /\ call' = [op |-> "mIBU"]
    /\ obj' = calc_mIBU_init(input.surface_area, input.open_area,
                             input.volume, input.max_u, input.r)
    /\ result' = None
    /\ UNCHANGED <<input, hop>>

\* obj.change_b(b)
ChangeB ==
    /\ obj.kind = "mIBU"
    /\ \E b \in Replacements :
          /\ call' = [op |-> "change_b", b |-> b, old_b |-> obj.b]
          /\ obj' = calc_change_b(obj, b).self
          /\ result' = calc_change_b(obj, b).outcome
    /\ UNCHANGED <<input, hop>>

\* obj.mIBU(t, t_boil, t_cool)
CallObjMIBU ==
    /\ obj.kind = "mIBU"
    /\ call' = [op |-> "obj.mIBU"]
    /\ result' = calc_mIBU_mIBU(obj, input.t, input.t_boil, input.t_cool)
    /\ UNCHANGED <<input, obj, hop>>

calc_setattr_mutant(self, field, value) ==
    LET set == [self EXCEPT ![field] = value]
    IN  [set EXCEPT !.b = calc_calculate_b(set.surface_area, set.open_area,
                                           set.volume)]

\* obj.<field> = value.  class mIBU defines no property and no __setattr__:
\* the assignment rebinds that one instance attribute and nothing else.
calc_setattr(self, field, value) ==
    [self EXCEPT ![field] = value]

\* Geometry a caller may assign after construction
Assignments ==
    {<<"surface_area", Lit(600, 1)>>, <<"open_area", Lit(75, 1)>>,
     <<"volume", Lit(10, 1)>>}

\* obj.surface_area = value, obj.open_area = value or obj.volume = value
SetGeometry ==
    /\ obj.kind = "mIBU"
    /\ \E a \in Assignments :
          /\ call' = [op |-> "setattr", field |-> a[1], value |-> a[2]]
          /\ obj' = calc_setattr(obj, a[1], a[2])
    /\ result' = None
    /\ UNCHANGED <<input, hop>>

NextObj == NewMIBU \/ ChangeB \/ CallObjMIBU \/ SetGeometry

SpecObj == InitObj /\ [][NextObj]_vars

(***************************************************************************)
(* C2.  change_b(v) overwrites b with v and reports success for every      *)
(* real number v, integers such as 1 included, and fails with an           *)
(* InvalidInput error (ValueError) for every v that is not a real number;  *)
(* whenever it fails, b keeps the value it had.                            *)
(* The code tests type(b) is float: the int 1 is refused, and so is the    *)
(* numpy.float64 that calculate_b itself returns.                          *)
(***************************************************************************)
RealNumberKinds == {"float", "int", "numpy.float64"}

C2_ChangeBAcceptsReals ==
    call.op = "change_b" =>
        IF call.b.kind \in RealNumberKinds
        THEN result = Bool(TRUE) /\ obj.b = call.b.v
        ELSE result = Raise("ValueError") /\ obj.b = call.old_b

(***************************************************************************)
(* C3.  The free-function form mIBU.mIBU(t, t_boil, t_cool, surface_area,  *)
(* open_area, volume, max_u, r) and the object form (a model constructed   *)
(* with the same surface_area, open_area, volume, max_u, r, then           *)
(* evaluated with mIBU(t, t_boil, t_cool)) end in the same outcome: the    *)
(* same value, or an error in both.                                        *)
(* The object form raises AttributeError for every t; the free-function    *)
(* form returns a value for every float t.                                 *)
(***************************************************************************)
C3_FormsAgree ==
    (/\ call.op = "obj.mIBU"
     /\ obj.b = calc_calculate_b(obj.surface_area, obj.open_area, obj.volume))
        => LET free == model_mIBU_mIBU(input.t, input.t_boil, input.t_cool,
                                       obj.surface_area, obj.open_area,
                                       obj.volume, obj.max_u, obj.r)
           IN  IF free.kind = "raise"
               THEN result.kind = "raise"
               ELSE result = free

(***************************************************************************)
(* C11.  The integrand of mIBU's cooling term is, at every integration     *)
(* point x, tinseth_rate(x) * mIBU_rate_correction(x, b): both factors are *)
(* taken at x, so the value returned for a float t is the boil term plus   *)
(* the integral of that product.                                           *)
(* The code's cool_rate multiplies tinseth_rate(x) by                      *)
(* mIBU_rate_correction(t, b), the correction at the hop's total time t,   *)
(* the same number at every integration point.                             *)
(***************************************************************************)
C11_Expected(t, t_cool, surface_area, open_area, volume, max_u, r) ==
    LET b == model_mIBU_b(surface_area, open_area, volume)
        t_mask == GreaterEqual(t, t_cool)
        integrand(x) ==
            Times(model_tinseth_rate(Float(x), max_u, r),
                  model_mIBU_rate_correction(Float(x), b))
    IN  Plus(Where(t_mask, model_tinseth(t, max_u, r), Float(Zero)),
             Where(t_mask, Quad(integrand, Zero, t_cool),
                   Quad(integrand, FSub(t_cool, t.v), t_cool)))

C11_IntegrandAtX ==
    (call.op = "mIBU.mIBU" /\ input.t.kind = "float") =>
        result = C11_Expected(input.t, input.t_cool, input.surface_area,
                              input.open_area, input.volume, input.max_u,
                              input.r)

(***************************************************************************)
(* C17.  The result of mIBU does not depend on t_boil: a call that differs *)
(* from the one made only in its t_boil ends in the same outcome, the same *)
(* value or the same error, in the free-function form and in the object    *)
(* form alike.                                                             *)
(***************************************************************************)
C17_IndependentOfBoilTime ==
    call.op = "mIBU.mIBU" =>
        \A other \in BoilTimes :
            /\ model_mIBU_mIBU(input.t, other, input.t_cool,
                               input.surface_area, input.open_area,
                               input.volume, input.max_u, input.r) = result
            /\ LET self == calc_mIBU_init(input.surface_area, input.open_area,
                                          input.volume, input.max_u, input.r)
               IN  calc_mIBU_mIBU(self, input.t, other, input.t_cool)
                       = calc_mIBU_mIBU(self, input.t, input.t_boil,
                                        input.t_cool)

\* A hop in the wort for 60 minutes of a 90 minute boil
C17_Witness ==
    /\ call.op = "mIBU.mIBU"
    /\ input.t = Float(Lit(60, 1))
    /\ input.t_boil = Lit(90, 1)
    /\ result.kind = "ndarray"

(***************************************************************************)
(* C15.  An mIBU model object's b equals calculate_b(surface_area,         *)
(* open_area, volume) right after construction, and afterwards b changes   *)
(* only through change_b: an assignment to surface_area, open_area or      *)
(* volume sets that field and leaves b as it was, so b may then differ     *)
(* from calculate_b of the current fields.                                 *)
(***************************************************************************)
C15_BChangesOnlyByChangeB ==
    /\ [](call.op = "mIBU" =>
             obj.b = calc_calculate_b(obj.surface_area, obj.open_area,
                                      obj.volume))
    /\ [][/\ (obj.kind = "mIBU" /\ obj'.b # obj.b)
                => call'.op \in {"change_b", "mIBU"}
          /\ call'.op = "setattr"
                => obj'[call'.field] = call'.value /\ obj'.b = obj.b]_vars

\* A geometry field assigned, no change_b since: b is that of the old geometry
C15_Witness ==
    /\ call.op = "setattr"
    /\ obj.volume = Lit(10, 1)
    /\ obj.volume # input.volume
    /\ obj.b = calc_calculate_b(input.surface_area, input.open_area,
                                input.volume)
    /\ obj.b # calc_calculate_b(obj.surface_area, obj.open_area, obj.volume)

(***************************************************************************)
(* MegaBeer/model/hops/iso_time.py: MaloShell, the interpolation surface   *)
(***************************************************************************)
\* Two statements in a row: an exception raised by the first ends the
\* function, otherwise the rest runs with the first one's value
Then(first, rest(_)) ==
    IF first.kind = "raise" THEN first ELSE rest(first)

\* A numpy array of no dimensions (np.zeros_like of a float, np.asarray of one)
Array0(f) == [kind |-> "ndarray0", v |-> f]

\* np.linspace(start, stop, num) for floats and an int num >= 2: num points,
\* start + i * step with step = (stop - start) / (num - 1), the last one stop
np_linspace(start, stop, num) ==
    LET step == FDiv(FSub(stop, start), Lit(num - 1, 1))
    IN  Array([i \in 1..num |->
                  IF i = num THEN stop
                  ELSE FAdd(start, FMul(Lit(i - 1, 1), step))])

\* np.zeros_like(a)
np_zeros_like(a) ==
    IF a.kind = "ndarray" THEN Array([i \in 1..Len(a.v) |-> Zero])
    ELSE Array0(Zero)

RECURSIVE Flatten(_)
\* The rows of a sequence of one-dimensional arrays, end to end
Flatten(arrays) ==
    IF arrays = <<>> THEN <<>>
    ELSE Head(arrays).v \o Flatten(Tail(arrays))

\* np.concatenate(arrays) along axis 0: every operand must have a dimension
\* ("zero-dimensional arrays cannot be concatenated"); one-dimensional
\* operands are joined end to end into one one-dimensional array
np_concatenate(arrays) ==
    IF \E i \in 1..Len(arrays) : arrays[i].kind # "ndarray"
    THEN Raise("ValueError")
    ELSE Array(Flatten(arrays))

\* MaloShell.maloshell(t, k1, k2):
\*     return k1 / (k2 - k1) * (np.exp(-k1 * t) - np.exp(-k2 * t))
model_maloshell(t, k1, k2) ==
    LET one(x) == FMul(FDiv(k1, FSub(k2, k1)),
                       FSub(FExp(FMul(FNeg(k1), x)), FExp(FMul(FNeg(k2), x))))
    IN  IF t.kind = "ndarray"
        THEN Array([i \in 1..Len(t.v) |-> one(t.v[i])])
        ELSE Float(one(t.v))

\* MaloShell.maloshell_std(t):  return MaloShell.maloshell(t, 0.01141, 0.00263)
model_maloshell_std(t) ==
    model_maloshell(t, Lit(1141, 100000), Lit(263, 100000))

\* n = 100, the points of the time grid
cooling_n == 100

\* temp_arr = np.array([80., 90., 100., 110.])
temp_arr == Array(<<Lit(80, 1), Lit(90, 1), Lit(100, 1), Lit(110, 1)>>)

\* The table both functions build for a float t:
\*     t_arr = np.linspace(0., t, n)
\*     t_110 = MaloShell.maloshell(t, 0.03078, 0.0068)
\*     t_100 = MaloShell.maloshell_std(t_arr)
\*     t_90 = MaloShell.maloshell(t, 0.00478, 0.00144)
\*     t_80 = np.zeros_like(t)
\*     util_arr = np.concatenate([t_80, t_90, t_100, t_110])
\* t_110 and t_90 are computed from t, not from t_arr.
model_util_arr(t) ==
    LET t_arr == np_linspace(Zero, t.v, cooling_n)
        t_110 == model_maloshell(t, Lit(3078, 100000), Lit(68, 10000))
        t_100 == model_maloshell_std(t_arr)
        t_90  == model_maloshell(t, Lit(478, 100000), Lit(144, 100000))
        t_80  == np_zeros_like(t)
    IN  np_concatenate(<<t_80, t_90, t_100, t_110>>)

\* RectBivariateSpline(x, y, z): z must be a table of len(x) rows and len(y)
\* columns.  Of the fitted surface the model keeps the table only.
model_rbs(x, y, z) ==
    IF z.kind # "ndarray2" THEN Raise("ValueError")
    ELSE IF Len(z.v) # Len(x.v) THEN Raise("ValueError")
    ELSE IF \E i \in 1..Len(z.v) : Len(z.v[i]) # Len(y.v)
    THEN Raise("ValueError")
    ELSE [kind |-> "RectBivariateSpline", x |-> x, y |-> y, z |-> z]

\* MaloShell.maloshell_cooling_curves(t, tau, T0) and
\* MaloShell.maloshell_cooling(t, tau, T0) up to the surface fit, the same
\* statements in both:
\*     temp = heat.NewtonCooling.T(t, T0, 100., tau)
\*     util_arr = np.concatenate(...)
\*     util_func = rbs(temp_arr, t_arr, util_arr)
model_cooling_surface(t, tau, T0) ==
    Then(NewtonCooling_T(t.v, T0, Lit(100, 1), tau), LAMBDA temp :
    Then(model_util_arr(t), LAMBDA util_arr :
         model_rbs(temp_arr, np_linspace(Zero, t.v, cooling_n), util_arr)))

\* maloshell_cooling_curves: the surface along the cooling curve,
\*     [util_func(t_arr[i], temp_arr_dense[i]) for i in range(n)]
\* temp_arr_dense is the float NewtonCooling.T returned: it has no elements
model_maloshell_cooling_curves(t, tau, T0) ==
    Then(model_cooling_surface(t, tau, T0), LAMBDA util_func :
         Raise("TypeError"))

\* maloshell_cooling:  return util_func(t, temp_final)
model_maloshell_cooling(t, tau, T0) ==
    Then(model_cooling_surface(t, tau, T0), LAMBDA util_func :
         [kind |-> "surface value", of |-> util_func, at |-> t.v])

\* Minutes left to cool: 0, 1, ... MaxCoolMinutes
MaxCoolMinutes == 24

CoolingLeft == {Float(Lit(i, 1)) : i \in 0..MaxCoolMinutes}

SurfaceTaus == {Zero, Lit(60, 1), Lit(1325, 10)}

SurfaceInputs == [t : CoolingLeft, tau : SurfaceTaus, T0 : {Lit(211, 10)}]

InitSurface ==
    /\ input \in SurfaceInputs
    /\ call = NoCall
    /\ result = None
    /\ obj = None
    /\ hop = None

\* MaloShell.maloshell_cooling_curves(t, tau, T0)
CallCoolingCurves ==
    /\ call' = [op |-> "maloshell_cooling_curves"]
    /\ result' = model_maloshell_cooling_curves(input.t, input.tau, input.T0)
    /\ UNCHANGED <<input, obj, hop>>

\* MaloShell.maloshell_cooling(t, tau, T0)
CallSurfaceCooling ==
    /\ call' = [op |-> "maloshell_cooling"]
    /\ result' = model_maloshell_cooling(input.t, input.tau, input.T0)
    /\ UNCHANGED <<input, obj, hop>>

NextSurface == CallCoolingCurves \/ CallSurfaceCooling

SpecSurface == InitSurface /\ [][NextSurface]_vars

(***************************************************************************)
(* C14.  The table handed to the bivariate surface fit is a 2-D table      *)
(* indexed by (temperature, time): one row for each of the four tabulated  *)
(* temperatures 80, 90, 100, 110, each row of length n = 100, the          *)
(* 80-degree row all zeros.                                                *)
(* The code computes the 90 and 110 degree curves from the float t, not    *)
(* from the grid, makes the 80 degree row with np.zeros_like(t), a         *)
(* zero-dimensional array, and joins the four with np.concatenate, which   *)
(* raises for operands without a dimension (and would join rows end to     *)
(* end, not stack them): no table reaches the fit.                         *)
(***************************************************************************)
C14_TableIsFourByN ==
    (/\ call.op \in {"maloshell_cooling_curves", "maloshell_cooling"}
     /\ input.tau # Zero)
        => LET util_arr == model_util_arr(input.t)
           IN  /\ util_arr.kind = "ndarray2"
               /\ Len(util_arr.v) = Len(temp_arr.v)
               /\ \A i \in 1..Len(util_arr.v) : Len(util_arr.v[i]) = cooling_n
               /\ \A j \in 1..cooling_n : util_arr.v[1][j] = Zero
               /\ result.kind # "raise"

(***************************************************************************)
(* MegaBeer/calculation/hops/iso_time.py: MaloShell.maloshell_cooling, the *)
(* ODE integration, with MegaBeer/science/reaction.py                      *)
(***************************************************************************)
\* np.ceil(x) as an integer
Ceil(x) ==
    IF x.e >= 0 THEN x.m * Pow2(x.e) ELSE -FloorDiv(-x.m, Pow2(-x.e))

\* The numpy the package is installed with (setup.py names no version).
\* np.linspace with a float for its number of points truncates it to an int
\* in the older releases and raises TypeError in the newer ones.
NumpyReleases == {"float count truncated", "float count refused"}

\* t_arr = np.linspace(0., tau, np.ceil(tau) + 1): np.ceil returns a float
calc_t_arr(tau, numpy) ==
    IF numpy = "float count refused" THEN Raise("TypeError")
    ELSE np_linspace(Zero, tau, Ceil(tau) + 1)

\* A call NewtonCooling.T(*args): T(t, T0, Ti, tau) takes four arguments
NewtonCooling_T_call(args) ==
    IF Len(args) # 4 THEN Raise("TypeError")
    ELSE NewtonCooling_T(args[1], args[2], args[3], args[4])

\* reaction.arrhenius(T, E0, A):
\*     R = 8.3145
\*     return A * np.exp( - E0 / (T + 272.15) / R)
arrhenius(T, E0, A) ==
    FMul(A, FExp(FDiv(FDiv(FNeg(E0), FAdd(T, Lit(27215, 100))),
                      Lit(83145, 10000))))

\* A call reaction.arrhenius(*args): arrhenius takes three arguments
arrhenius_call(args) ==
    IF Len(args) # 3 THEN Raise("TypeError")
    ELSE Float(arrhenius(args[1], args[2], args[3]))

\* The attributes of class reaction.RateEquations
RateEquations == {"order_n", "order_zero", "order_one", "order_two"}

\* reaction.RateEquations.<name>
RateEquations_getattr(name) ==
    IF name \in RateEquations THEN Str(name) ELSE Raise("AttributeError")

\* M = np.zeros((3, 3)) with M[0, 0] = -a, M[1, 0] = a, M[1, 1] = -b,
\* M[2, 1] = b, as dcdt fills it
calc_M(a, b) ==
    <<<<FNeg(a), Zero, Zero>>, <<a, FNeg(b), Zero>>, <<Zero, b, Zero>>>>

\* np.dot(M, c) for a 3 x 3 matrix and a vector of three
np_dot(M, c) ==
    Array([i \in 1..3 |->
              FAdd(FAdd(FMul(M[i][1], c.v[1]), FMul(M[i][2], c.v[2])),
                   FMul(M[i][3], c.v[3]))])

\* dcdt(c, t), the right-hand side defined inside maloshell_cooling.  Its
\* first statement reads reaction.RateEquations.dkn_dt, which the class does
\* not have; k1_func and k2_func call reaction.arrhenius(Ea, A) with two
\* arguments.
calc_dcdt(c, t, A1, A2, Ea_1, Ea_2) ==
    Then(RateEquations_getattr("dkn_dt"), LAMBDA dkn_dt :
    Then(arrhenius_call(<<Ea_1, A1>>), LAMBDA k1 :
    Then(arrhenius_call(<<Ea_2, A2>>), LAMBDA k2 :
         np_dot(calc_M(k1.v, k2.v), c))))

calc_maloshell_cooling_mutant(A1, A2, Ea_1, Ea_2, c0, tau, T_room, numpy) ==
    [kind |-> "interp1d array",
     t_arr |-> np_linspace(Zero, tau, Ceil(tau) + 1), c0 |-> c0]

\* MaloShell.maloshell_cooling(A1, A2, Ea_1, Ea_2, c0, tau, T_room):
\*     t_arr = np.linspace(0., tau, np.ceil(tau) + 1)
\*     temp_func = NewtonCooling.T(T_room, 100., tau)
\*     c = odeint(dcdt, c0, t_arr)         (dcdt is called at c0, t_arr[0])
\*     return np.asarry([interp1d(...) for i in range(3)])
\* numpy has no attribute asarry.
calc_maloshell_cooling(A1, A2, Ea_1, Ea_2, c0, tau, T_room, numpy) ==
    Then(calc_t_arr(tau, numpy), LAMBDA t_arr :
    Then(NewtonCooling_T_call(<<T_room, Lit(100, 1), tau>>), LAMBDA temp_func :
    Then(calc_dcdt(c0, t_arr.v[1], A1, A2, Ea_1, Ea_2), LAMBDA c :
         Raise("AttributeError"))))

\* Cooling timescales, in half minutes: 1/2, 1, ... MaxHalfMinutes / 2, and
\* the default 132.5
MaxHalfMinutes == 6

OdeTaus == {Lit(i, 2) : i \in 1..MaxHalfMinutes} \cup {Lit(1325, 10)}

\* Initial concentrations [AA, iso-AA, degradation products]
Concentrations ==
    {Array(<<One, Zero, Zero>>), Array(<<Lit(1, 2), Lit(1, 4), Lit(1, 4)>>)}

OdeInputs ==
    [A1 : {Lit(789, 1)}, A2 : {Lit(411, 1)},
     Ea_1 : {Lit(9860, 1)}, Ea_2 : {Lit(10800, 1)},
     c0 : Concentrations, tau : OdeTaus,
     T_room : {Lit(211, 10)}, t : {Zero, One},
     numpy : NumpyReleases]

InitOde ==
    /\ input \in OdeInputs
    /\ call = NoCall
    /\ result = None
    /\ obj = None
    /\ hop = None

\* MaloShell.maloshell_cooling(A1, A2, Ea_1, Ea_2, c0, tau, T_room)
CallOdeCooling ==
    /\ call' = [op |-> "calc.maloshell_cooling"]
    /\ result' = calc_maloshell_cooling(input.A1, input.A2, input.Ea_1,
                                        input.Ea_2, input.c0, input.tau,
                                        input.T_room, input.numpy)
    /\ UNCHANGED <<input, obj, hop>>

\* dcdt(c, t), as the ODE solver would call it
CallDcdt ==
    /\ call' = [op |-> "dcdt"]
    /\ result' = calc_dcdt(input.c0, input.t, input.A1, input.A2, input.Ea_1,
                           input.Ea_2)
    /\ UNCHANGED <<input, obj, hop>>

NextOde == CallOdeCooling \/ CallDcdt

SpecOde == InitOde /\ [][NextOde]_vars

(***************************************************************************)
(* C12.  In the ODE-integration maloshell_cooling the time grid runs from  *)
(* 0 to tau in ceil(tau) + 1 points that are exactly one minute apart, for *)
(* every tau > 0, the default 132.5 included.                              *)
(* np.linspace spaces its points tau / ceil(tau) apart, one minute only    *)
(* for a whole number of minutes; and the count it is handed is a float,   *)
(* which the newer numpy releases refuse.                                  *)
(***************************************************************************)
C12_GridOneMinuteApart ==
    call.op = "calc.maloshell_cooling" =>
        LET t_arr == calc_t_arr(input.tau, input.numpy)
        IN  /\ t_arr.kind = "ndarray"
            /\ Len(t_arr.v) = Ceil(input.tau) + 1
            /\ t_arr.v[1] = Zero
            /\ t_arr.v[Len(t_arr.v)] = input.tau
            /\ \A i \in 1..(Len(t_arr.v) - 1) :
                  FSub(t_arr.v[i + 1], t_arr.v[i]) = One

(***************************************************************************)
(* C13.  The ODE-integration MaloShell.maloshell_cooling is non-functional *)
(* as written: for every input (A1, A2, Ea_1, Ea_2, c0, tau, T_room) the   *)
(* call ends in an error and never returns the three interpolating         *)
(* functions.                                                              *)
(***************************************************************************)
C13_OdeCoolingAlwaysFails ==
    call.op = "calc.maloshell_cooling" => result.kind = "raise"

\* With a numpy that builds the grid the call still fails, at NewtonCooling.T
C13_Witness ==
    /\ call.op = "calc.maloshell_cooling"
    /\ input.numpy = "float count truncated"
    /\ input.tau = Lit(1325, 10)
    /\ calc_t_arr(input.tau, input.numpy).kind = "ndarray"
    /\ result = Raise("TypeError")

(***************************************************************************)
(* C16.  The right-hand side dcdt conserves total concentration: for every *)
(* state c = [c1, c2, c3] and every time t the three components of         *)
(* dcdt(c, t) sum to zero.                                                 *)
(* The matrix dcdt fills has columns that sum to zero, but dcdt never      *)
(* gets to multiply it: its first statement raises.                        *)
(***************************************************************************)
C16_DcdtSumsToZero ==
    call.op = "dcdt" =>
        /\ result.kind = "ndarray"
        /\ Len(result.v) = 3
        /\ FAdd(FAdd(result.v[1], result.v[2]), result.v[3]) = Zero

=============================================================================
